---- MODULE Spec2Model ----
(***************************************************************************)
(* Skill registry, per-target enablement adapters and the service layer    *)
(* of skills-manager, as a state machine over the on-disk state.           *)
(*                                                                         *)
(* A path is a sequence of segments.  The roots are one-segment paths:     *)
(*   V   the VS Code managed root  (userData/targets/vscode/skills)        *)
(*   XH  the Codex home root       (~/.codex/skills)                       *)
(*   XS  the Codex system root     (/etc/codex/skills)                     *)
(*   CH  the Claude Code home root (~/.claude/skills)                      *)
(*   E   a user-configured extra root (settings.extraRoots)                *)
(*   K   the VS Code companion ("Copilot") root, when configured           *)
(* disk.temp holds the checkout directories that exist under the system    *)
(* temp directory; disk.settingsFile and disk.settingsTmp are the contents *)
(* of settings.json and settings.json.tmp.                                 *)
(* The service is constructed with workspaceFolders = [], so no target has *)
(* workspace roots.  A skill directory is <root>/<folder> or               *)
(* <root>/.disabled/<folder>.                                              *)
(***************************************************************************)
EXTENDS Integers, Sequences, FiniteSets, TLC

VARIABLES disk, settings, claudeVariant, last, rt, ops

vars == <<disk, settings, claudeVariant, last, rt, ops>>

\* ------------------------------------------------------------------ bounds
\* At most this many skill directories exist on the initial disk.
MaxDirs == 2

\* At most this many operations are performed on it.
MaxOps == 2

\* --------------------------------------------------------------- universe
Folders == {"foo", "bar"}

Disabled == ".disabled"

\* Order in which readdir returns the entries of a directory.
ReaddirOrder == <<".disabled", "bar", "foo">>

AllRoots == {"V", "XH", "XS", "CH", "E"}

\* What a skill directory slot holds: nothing, a directory without a
\* manifest, a manifest without a usable name, or a manifest naming the skill.
NoDir == "<absent>"

NoManifest == "<no SKILL.md>"

Unnamed == "<no name>"

ManifestNames == {"Foo", "foo"}

Contents == ManifestNames \cup {Unnamed, NoManifest}

SkillPaths ==
  {<<r, f>> : r \in AllRoots, f \in Folders}
    \cup {<<r, Disabled, f>> : r \in AllRoots, f \in Folders}

\* Slots that the initial disk may populate.
InitPaths ==
  {<<"V", "foo">>, <<"V", "bar">>, <<"V", Disabled, "foo">>, <<"V", Disabled, "bar">>,
   <<"CH", "foo">>, <<"CH", Disabled, "foo">>,
   <<"XH", "foo">>, <<"XS", "bar">>, <<"E", "foo">>}

NoPath == <<>>

\* ------------------------------------------------------------ path helpers
Basename(p) == p[Len(p)]

Dirname(p) == SubSeq(p, 1, Len(p) - 1)

Join(p, seg) == Append(p, seg)

IsPrefix(r, p) == Len(r) <= Len(p) /\ SubSeq(p, 1, Len(r)) = r

\* path.relative(root, skillPath) is non-empty and does not climb out of root.
IsUnderRoot(skillPath, root) == Len(root) < Len(skillPath) /\ IsPrefix(root, skillPath)

GetDisabledRoot(root) == Join(root, Disabled)

\* toLowerCase on the names the model uses.
Lower(n) == IF n = "Foo" THEN "foo" ELSE n

\* Position of a name under comparison by character code (upper case before
\* lower case).
LocaleRankByCharCode(n) ==
  CASE n = "Foo" -> 1
    [] n = "bar" -> 2
    [] n = "foo" -> 3
    [] OTHER -> 4

\* Position of a name under String.prototype.localeCompare (alphabetical,
\* lower case before upper case on a tie).
LocaleRank(n) ==
  CASE n = "bar" -> 1
    [] n = "foo" -> 2
    [] n = "Foo" -> 3
    [] OTHER -> 4

\* -------------------------------------------------------------- filesystem
DirAt(d, p) == IF p \in SkillPaths THEN d.dirs[p] ELSE NoDir

PathExists(d, p) == DirAt(d, p) # NoDir

HasManifest(d, p) == DirAt(d, p) \notin {NoDir, NoManifest}

\* parseSkillFile: the frontmatter name, else the parent directory's name.
ParsedName(d, p) == IF DirAt(d, p) = Unnamed THEN Basename(p) ELSE DirAt(d, p)

\* loadSkillRecord: id is the manifest path, path its directory.
LoadSkillRecord(d, p) ==
  [id |-> Join(p, "SKILL.md"), name |-> ParsedName(d, p), path |-> p, sourceRoots |-> <<>>]

\* ----------------------------------------------------------------- targets
TargetIds == {"vscode", "codex", "claude"}

\* A target id that no adapter registers.
UnknownTargetId == "cursor"

\* buildTargets: the adapters in registration order.
BuildTargets == <<"vscode", "codex", "claude">>

Priority(t) ==
  CASE t = "vscode" -> 1
    [] t = "codex" -> 3
    [] t = "claude" -> 9

RECURSIVE InsertByPriority(_, _)
InsertByPriority(sorted, t) ==
  IF sorted = <<>> THEN <<t>>
  ELSE IF Priority(t) < Priority(Head(sorted)) THEN <<t>> \o sorted
  ELSE <<Head(sorted)>> \o InsertByPriority(Tail(sorted), t)

RECURSIVE SortByPriority(_)
SortByPriority(ts) ==
  IF ts = <<>> THEN <<>>
  ELSE InsertByPriority(SortByPriority(SubSeq(ts, 1, Len(ts) - 1)), ts[Len(ts)])

\* SkillRegistry constructor: targets sorted by ascending priority.
Targets == SortByPriority(BuildTargets)

\* Claude Code has two adapters: "subfolder" (moves skills into .disabled)
\* and "unsupported" (no enablement control at all).
ClaudeVariants == {"subfolder", "unsupported"}

SupportsEnablement(t) == IF t = "claude" THEN claudeVariant = "subfolder" ELSE TRUE

GetRoots(t) ==
  CASE t = "vscode" -> << <<"V">> >>
    [] t = "codex" -> << <<"XH">>, <<"XS">> >>
    [] t = "claude" -> << <<"CH">> >>

IsManagedRoot(t, root) ==
  CASE t = "vscode" -> root = <<"V">>
    [] t = "codex" -> root = <<"XH">>
    [] t = "claude" -> root = <<"CH">>

ExtraRoots == << <<"E">> >>

\* settings.vscodeCopilotRoot, NoPath when not configured.
CopilotRoot == settings.vscodeCopilotRoot

CompanionPath == <<"K">>

\* Index of the first element of seq satisfying Test, 0 when there is none.
FirstIndex(seq, Test(_)) ==
  IF \E i \in 1..Len(seq) : Test(seq[i])
  THEN CHOOSE i \in 1..Len(seq) : Test(seq[i]) /\ \A j \in 1..(i - 1) : ~Test(seq[j])
  ELSE 0

SomeIn(seq, Test(_)) == \E i \in 1..Len(seq) : Test(seq[i])

\* ------------------------------------------------- companion root entries
NoLink == [kind |-> "none", target |-> NoPath]

LinkAt(d, linkPath) == d.links[Basename(linkPath)]

\* readSymlinkTarget: the link's target when the entry is a symbolic link.
ReadSymlinkTarget(d, linkPath) ==
  IF LinkAt(d, linkPath).kind = "symlink" THEN LinkAt(d, linkPath).target ELSE NoPath

\* ------------------------------------------------ Codex configuration file
\* readConfig: a missing or unparseable file reads as the empty config.
ReadConfig(d) ==
  IF d.config.state = "ok" THEN [other |-> d.config.other, entries |-> d.config.entries]
  ELSE [other |-> FALSE, entries |-> <<>>]

\* writeConfig: the file is replaced by the serialized config.
WriteConfig(d, config) ==
  [d EXCEPT !.config = [state |-> "ok", other |-> config.other, entries |-> config.entries]]

\* path.resolve of an absolute path: "." segments are dropped.
NormalizeSkillPath(p) == SelectSeq(p, LAMBDA seg : seg # ".")

\* --------------------------------------------------------- getEnablement
\* A getEnablement that tests the root but not its `.disabled` child.
VsCodeGetEnablementIgnoresDisabled(d, p) ==
  LET roots == GetRoots("vscode")
      i == FirstIndex(roots, LAMBDA r : IsUnderRoot(p, r))
  IN IF i = 0 THEN "not-installed"
     ELSE IF CopilotRoot # NoPath
       THEN IF ReadSymlinkTarget(d, Join(CopilotRoot, Basename(p))) # NoPath
            THEN "enabled" ELSE "disabled"
     ELSE "enabled"

VsCodeGetEnablement(d, p) ==
  LET roots == GetRoots("vscode")
      i == FirstIndex(roots, LAMBDA r : IsUnderRoot(p, r))
  IN IF i = 0 THEN "not-installed"
     ELSE IF CopilotRoot # NoPath
       THEN IF ReadSymlinkTarget(d, Join(CopilotRoot, Basename(p))) # NoPath
            THEN "enabled" ELSE "disabled"
     ELSE IF IsUnderRoot(p, GetDisabledRoot(roots[i])) THEN "disabled"
     ELSE "enabled"

ClaudeGetEnablement(d, p) ==
  LET roots == GetRoots("claude")
      i == FirstIndex(roots, LAMBDA r : IsUnderRoot(p, r))
  IN IF i = 0 THEN "not-installed"
     ELSE IF IsUnderRoot(p, GetDisabledRoot(roots[i])) THEN "disabled"
     ELSE "enabled"

ClaudeUnsupportedGetEnablement(d, p) == "unsupported"

CodexGetEnablement(d, p) ==
  LET entries == ReadConfig(d).entries
      i == FirstIndex(entries, LAMBDA e : NormalizeSkillPath(e.path) = NormalizeSkillPath(p))
  IN IF i = 0 THEN "enabled"
     ELSE IF entries[i].enabled = FALSE THEN "disabled"
     ELSE "enabled"

GetEnablement(t, d, p) ==
  CASE t = "vscode" -> VsCodeGetEnablement(d, p)
    [] t = "codex" -> CodexGetEnablement(d, p)
    [] t = "claude" ->
         IF claudeVariant = "subfolder" THEN ClaudeGetEnablement(d, p)
         ELSE ClaudeUnsupportedGetEnablement(d, p)

\* The disk as each getEnablement leaves it: the calls it makes are lstat,
\* readlink and readFile, none of which writes.
VsCodeGetEnablementDisk(d, p) == d

ClaudeGetEnablementDisk(d, p) == d

\* A getEnablement that writes a default config file when it finds none.
CodexGetEnablementDiskCreatesConfig(d, p) ==
  IF d.config.state = "absent" THEN [d EXCEPT !.config.state = "ok"] ELSE d

CodexGetEnablementDisk(d, p) == d

GetEnablementDisk(t, d, p) ==
  CASE t = "vscode" -> VsCodeGetEnablementDisk(d, p)
    [] t = "codex" -> CodexGetEnablementDisk(d, p)
    [] t = "claude" -> ClaudeGetEnablementDisk(d, p)

\* --------------------------------------------------------- setEnablement
Ok(d) == [ok |-> TRUE, err |-> "", disk |-> d]

Fail(d, message) == [ok |-> FALSE, err |-> message, disk |-> d]

\* A move that copies to the destination and leaves the source in place.
MoveSkillKeepsSource(d, fromPath, toPath) ==
  [d EXCEPT !.dirs = [@ EXCEPT ![toPath] = d.dirs[fromPath]]]

\* moveSkill: create the destination's parent, remove whatever sits at the
\* destination (recursively), then rename.
MoveSkill(d, fromPath, toPath) ==
  [d EXCEPT !.dirs = [@ EXCEPT ![toPath] = d.dirs[fromPath], ![fromPath] = NoDir]]

\* The disabled-subfolder move shared by the VS Code and Claude adapters.
SubfolderSetEnablement(d, root, skillName, enabled) ==
  LET active == Join(root, skillName)
      parked == Join(GetDisabledRoot(root), skillName)
      fromPath == IF enabled THEN parked ELSE active
      toPath == IF enabled THEN active ELSE parked
  IN IF PathExists(d, fromPath) THEN Ok(MoveSkill(d, fromPath, toPath)) ELSE Ok(d)

OwningRootIndex(roots, p) ==
  FirstIndex(roots, LAMBDA r : IsUnderRoot(p, r) \/ IsUnderRoot(p, GetDisabledRoot(r)))

VsCodeSetEnablement(d, p, enabled) ==
  LET roots == GetRoots("vscode")
      i == OwningRootIndex(roots, p)
      skillName == Basename(p)
  IN IF i = 0 THEN Fail(d, "Skill is not installed in the VS Code managed root.")
     ELSE IF CopilotRoot # NoPath
       THEN IF enabled
            THEN Ok([d EXCEPT !.links[skillName] =
                       [kind |-> "symlink", target |-> Join(roots[i], skillName)]])
            ELSE Ok([d EXCEPT !.links[skillName] = NoLink])
     ELSE SubfolderSetEnablement(d, roots[i], skillName, enabled)

ClaudeSetEnablement(d, p, enabled) ==
  LET roots == GetRoots("claude")
      i == OwningRootIndex(roots, p)
  IN IF i = 0 THEN Fail(d, "Skill is not installed in the Claude Code root.")
     ELSE SubfolderSetEnablement(d, roots[i], Basename(p), enabled)

ClaudeUnsupportedSetEnablement(d, p, enabled) ==
  Fail(d, "Enablement for Claude Code skills is not supported yet.")

\* A setEnablement that appends or keeps entries without first removing the
\* entries of the path.
CodexSetEnablementKeepsEntries(d, p, enabled) ==
  LET config == ReadConfig(d)
      entries == IF enabled THEN config.entries
                 ELSE Append(config.entries, [path |-> p, enabled |-> FALSE])
  IN Ok(WriteConfig(d, [other |-> config.other, entries |-> entries]))

CodexSetEnablement(d, p, enabled) ==
  LET config == ReadConfig(d)
      filtered == SelectSeq(config.entries,
                    LAMBDA e : NormalizeSkillPath(e.path) # NormalizeSkillPath(p))
      entries == IF enabled THEN filtered
                 ELSE Append(filtered, [path |-> p, enabled |-> FALSE])
  IN Ok(WriteConfig(d, [other |-> config.other, entries |-> entries]))

SetEnablement(t, d, p, enabled) ==
  CASE t = "vscode" -> VsCodeSetEnablement(d, p, enabled)
    [] t = "codex" -> CodexSetEnablement(d, p, enabled)
    [] t = "claude" ->
         IF claudeVariant = "subfolder" THEN ClaudeSetEnablement(d, p, enabled)
         ELSE ClaudeUnsupportedSetEnablement(d, p, enabled)

\* ---------------------------------------------------------------- registry
RECURSIVE Flatten(_)
Flatten(seqs) == IF seqs = <<>> THEN <<>> ELSE Head(seqs) \o Flatten(Tail(seqs))

\* The directories of skill folders below dirPath, in readdir order.
SubdirsOf(d, dirPath) ==
  SelectSeq([i \in 1..Len(ReaddirOrder) |-> Join(dirPath, ReaddirOrder[i])],
            LAMBDA p : Basename(p) # Disabled /\ PathExists(d, p))

\* collectSkillFilesFromRoot: the directories of the manifests found in a
\* root: each immediate subdirectory and, right after the `.disabled` entry,
\* each subdirectory of `.disabled`.  (The model's roots hold no manifest of
\* their own, so the single-skill early return is not taken.)
CollectSkillFilesFromRoot(d, root) ==
  LET scanDirs ==
        Flatten([i \in 1..Len(ReaddirOrder) |->
          IF ReaddirOrder[i] = Disabled
          THEN SubdirsOf(d, GetDisabledRoot(root))
          ELSE IF PathExists(d, Join(root, ReaddirOrder[i]))
               THEN <<Join(root, ReaddirOrder[i])>> ELSE <<>>])
  IN SelectSeq(scanDirs, LAMBDA p : HasManifest(d, p))

RECURSIVE Dedup(_)
Dedup(seq) ==
  IF seq = <<>> THEN <<>>
  ELSE LET front == Dedup(SubSeq(seq, 1, Len(seq) - 1))
           x == seq[Len(seq)]
       IN IF \E i \in 1..Len(front) : front[i] = x THEN front ELSE Append(front, x)

\* listSkills, lines 95-100: every target's roots, then the extra roots.
RootSet == Dedup(Flatten([i \in 1..Len(Targets) |-> GetRoots(Targets[i])]) \o ExtraRoots)

\* Every discovered copy with the root it was found under, in scan order.
Discovered(d) ==
  Flatten([i \in 1..Len(RootSet) |->
    LET files == CollectSkillFilesFromRoot(d, RootSet[i])
    IN [j \in 1..Len(files) |-> [path |-> files[j], root |-> RootSet[i]]]])

\* The merge keyed by the copy's path instead of its lower-cased name.
MergeCopyByPath(d, skillMap, copy) ==
  LET record == LoadSkillRecord(d, copy.path)
  IN Append(skillMap,
       [key |-> copy.path,
        record |-> [record EXCEPT !.sourceRoots = <<copy.root>>],
        entries |-> <<copy>>])

\* listSkills, lines 102-118: merge the copies by lower-cased name.  The first
\* copy discovered supplies the record (id, name, path).
MergeCopy(d, skillMap, copy) ==
  LET record == LoadSkillRecord(d, copy.path)
      key == Lower(record.name)
      i == FirstIndex(skillMap, LAMBDA c : c.key = key)
  IN IF i = 0
     THEN Append(skillMap,
            [key |-> key,
             record |-> [record EXCEPT !.sourceRoots = <<copy.root>>],
             entries |-> <<copy>>])
     ELSE [skillMap EXCEPT
             ![i].record.sourceRoots = Append(@, copy.root),
             ![i].entries = Append(@, copy)]

RECURSIVE MergeAll(_, _, _)
MergeAll(d, skillMap, copies) ==
  IF copies = <<>> THEN skillMap
  ELSE MergeAll(d, MergeCopy(d, skillMap, Head(copies)), Tail(copies))

SkillMap(d) == MergeAll(d, <<>>, Discovered(d))

\* listSkills, line 126: the first copy of the skill under one of the
\* target's roots (0 when there is none).
MatchIndex(candidate, t) ==
  FirstIndex(candidate.entries,
    LAMBDA e : SomeIn(GetRoots(t), LAMBDA r : IsUnderRoot(e.path, r) \/ e.path = r))

\* The TargetState computed from the record's representative path instead of
\* the target's own copy.
TargetStateOfRecordPath(d, candidate, t) ==
  LET m == MatchIndex(candidate, t)
      managed == SomeIn(GetRoots(t), LAMBDA r : IsManagedRoot(t, r))
  IN IF m = 0
     THEN [targetId |-> t, status |-> "not-installed", managed |-> managed, path |-> NoPath]
     ELSE IF ~SupportsEnablement(t)
     THEN [targetId |-> t, status |-> "unsupported", managed |-> managed,
           path |-> candidate.entries[m].path]
     ELSE [targetId |-> t, status |-> GetEnablement(t, d, candidate.record.path),
           managed |-> managed, path |-> candidate.entries[m].path]

\* listSkills, lines 124-155: the TargetState of one skill for one target.
TargetStateOf(d, candidate, t) ==
  LET m == MatchIndex(candidate, t)
      managed == SomeIn(GetRoots(t), LAMBDA r : IsManagedRoot(t, r))
  IN IF m = 0
     THEN [targetId |-> t, status |-> "not-installed", managed |-> managed, path |-> NoPath]
     ELSE IF ~SupportsEnablement(t)
     THEN [targetId |-> t, status |-> "unsupported", managed |-> managed,
           path |-> candidate.entries[m].path]
     ELSE [targetId |-> t, status |-> GetEnablement(t, d, candidate.entries[m].path),
           managed |-> managed, path |-> candidate.entries[m].path]

EntryOf(d, candidate) ==
  [id |-> candidate.record.id,
   name |-> candidate.record.name,
   path |-> candidate.record.path,
   sourceRoots |-> candidate.record.sourceRoots,
   targets |-> [i \in 1..Len(Targets) |-> TargetStateOf(d, candidate, Targets[i])]]

RECURSIVE InsertByName(_, _)
InsertByName(sorted, e) ==
  IF sorted = <<>> THEN <<e>>
  ELSE IF LocaleRank(e.name) < LocaleRank(Head(sorted).name) THEN <<e>> \o sorted
  ELSE <<Head(sorted)>> \o InsertByName(Tail(sorted), e)

RECURSIVE SortByName(_)
SortByName(es) ==
  IF es = <<>> THEN <<>>
  ELSE InsertByName(SortByName(SubSeq(es, 1, Len(es) - 1)), es[Len(es)])

\* The getEnablement calls listSkills makes, in order, as <<target, path>>.
EnablementCalls(skillMap) ==
  Flatten([i \in 1..Len(skillMap) |->
    Flatten([j \in 1..Len(Targets) |->
      LET m == MatchIndex(skillMap[i], Targets[j])
      IN IF m # 0 /\ SupportsEnablement(Targets[j])
         THEN << <<Targets[j], skillMap[i].entries[m].path>> >> ELSE <<>>])])

RECURSIVE ApplyReads(_, _)
ApplyReads(d, calls) ==
  IF calls = <<>> THEN d
  ELSE ApplyReads(GetEnablementDisk(Head(calls)[1], d, Head(calls)[2]), Tail(calls))

\* SkillRegistry.listSkills: the entries, sorted with localeCompare, and the
\* disk the call leaves.  Discovery only reads (access, readdir, readFile);
\* the only other file-system calls are the adapters' getEnablement.
Listing(d) ==
  LET skillMap == SkillMap(d)
  IN [skills |-> SortByName([i \in 1..Len(skillMap) |-> EntryOf(d, skillMap[i])]),
      disk |-> ApplyReads(d, EnablementCalls(skillMap))]

ListSkills(d) == Listing(d).skills

ListSkillsDisk(d) == Listing(d).disk

\* ----------------------------------------------------------------- service
\* The outcome of a toggle: the error (if any), the disk it leaves, the
\* status it found, the enablement it asked the adapter for and the path it
\* handed to the adapter.
ToggleOutcome(res, key, before, requested, path) ==
  [ok |-> res.ok, err |-> res.err, disk |-> res.disk, key |-> key,
   before |-> before, requested |-> requested, path |-> path]

TargetStateIndex(skill, targetId) ==
  FirstIndex(skill.targets, LAMBDA ts : ts.targetId = targetId)

\* toggleSkillTarget without the "not installed" check.
RegistryToggleNoInstalledCheck(d, skill, targetId) ==
  LET key == Lower(skill.name)
      c == TargetStateIndex(skill, targetId)
      before == IF c = 0 THEN "none" ELSE skill.targets[c].status
  IN IF targetId \notin TargetIds
     THEN ToggleOutcome(Fail(d, "Unknown target"), key, before, "none", NoPath)
     ELSE IF ~SupportsEnablement(targetId)
     THEN ToggleOutcome(Fail(d, "does not support enablement yet"), key, before, "none", NoPath)
     ELSE LET nextEnabled == before # "enabled"
              path == IF c # 0 /\ skill.targets[c].path # NoPath THEN skill.targets[c].path
                      ELSE skill.path
          IN ToggleOutcome(SetEnablement(targetId, d, path, nextEnabled), key, before,
                           IF nextEnabled THEN "enable" ELSE "disable", path)

\* toggleSkillTarget without the "unknown target" check.
RegistryToggleNoTargetCheck(d, skill, targetId) ==
  LET key == Lower(skill.name)
      c == TargetStateIndex(skill, targetId)
      before == IF c = 0 THEN "none" ELSE skill.targets[c].status
  IN IF c = 0 \/ before = "not-installed"
     THEN ToggleOutcome(Fail(d, "does not have this skill installed"), key, before, "none", NoPath)
     ELSE IF ~SupportsEnablement(targetId)
     THEN ToggleOutcome(Fail(d, "does not support enablement yet"), key, before, "none", NoPath)
     ELSE LET nextEnabled == before # "enabled"
              path == IF skill.targets[c].path # NoPath THEN skill.targets[c].path
                      ELSE skill.path
          IN ToggleOutcome(SetEnablement(targetId, d, path, nextEnabled), key, before,
                           IF nextEnabled THEN "enable" ELSE "disable", path)

\* SkillRegistry.toggleSkillTarget.
RegistryToggleSkillTarget(d, skill, targetId) ==
  LET key == Lower(skill.name)
      c == TargetStateIndex(skill, targetId)
      before == IF c = 0 THEN "none" ELSE skill.targets[c].status
  IN IF targetId \notin TargetIds
     THEN ToggleOutcome(Fail(d, "Unknown target"), key, before, "none", NoPath)
     ELSE IF ~SupportsEnablement(targetId)
     THEN ToggleOutcome(Fail(d, "does not support enablement yet"), key, before, "none", NoPath)
     ELSE IF c = 0 \/ before = "not-installed"
     THEN ToggleOutcome(Fail(d, "does not have this skill installed"), key, before, "none", NoPath)
     ELSE LET nextEnabled == before # "enabled"
              path == IF skill.targets[c].path # NoPath THEN skill.targets[c].path
                      ELSE skill.path
          IN ToggleOutcome(SetEnablement(targetId, d, path, nextEnabled), key, before,
                           IF nextEnabled THEN "enable" ELSE "disable", path)

\* copyDir: the destination becomes a copy of the source directory.
CopyDir(d, source, destination) ==
  [d EXCEPT !.dirs[destination] = d.dirs[source]]

SkillIndex(skills, skillId) == FirstIndex(skills, LAMBDA e : e.id = skillId)

NotFound(d) ==
  ToggleOutcome(Fail(d, "Skill not found"), "", "none", "none", NoPath)

\* SkillsService.toggleSkillTarget, first version: list, find, delegate.
\* listing is the result of the listSkills call it starts with.
ServiceToggleV1(listing, skillId, targetId) ==
  LET skills == listing.skills
      s == SkillIndex(skills, skillId)
  IN IF s = 0 THEN NotFound(listing.disk)
     ELSE RegistryToggleSkillTarget(listing.disk, skills[s], targetId)

\* The not-installed branch of the later SkillsService.toggleSkillTarget:
\* copy the skill into the target's managed root, then enable it there.
InstallForTarget(d, skill, targetId) ==
  LET roots == GetRoots(targetId)
      m == FirstIndex(roots, LAMBDA r : IsManagedRoot(targetId, r))
      managedRoot == IF m # 0 THEN roots[m] ELSE roots[1]
      destination == Join(managedRoot, Basename(skill.path))
      copied == IF PathExists(d, destination) THEN d ELSE CopyDir(d, skill.path, destination)
  IN ToggleOutcome(SetEnablement(targetId, copied, destination, TRUE),
                   Lower(skill.name), "not-installed", "enable", destination)

\* SkillsService.toggleSkillTarget, later version.  listing is the result of
\* the listSkills call it starts with.
ServiceToggleSkillTarget(listing, skillId, targetId) ==
  LET skills == listing.skills
      s == SkillIndex(skills, skillId)
  IN IF s = 0 THEN NotFound(listing.disk)
     ELSE LET c == TargetStateIndex(skills[s], targetId)
          IN IF c # 0 /\ skills[s].targets[c].status = "not-installed"
             THEN InstallForTarget(listing.disk, skills[s], targetId)
             ELSE RegistryToggleSkillTarget(listing.disk, skills[s], targetId)

\* ------------------------------------------------------------------- state
NoOp == [op |-> "none"]

NoRoundTrip == [stage |-> 0]

\* An id that no listing holds.
BogusId == <<"E", "gone", "SKILL.md">>

IdsOf(skills) == {skills[i].id : i \in 1..Len(skills)}

EmptyDisk ==
  [dirs |-> [p \in SkillPaths |-> NoDir],
   links |-> [f \in Folders |-> NoLink],
   config |-> [state |-> "absent", other |-> FALSE, entries |-> <<>>],
   temp |-> {},
   settingsFile |-> [file |-> "absent"],
   settingsTmp |-> [file |-> "absent"]]

InitContents == ManifestNames \cup {Unnamed}

\* The disks the program may find when it starts: at most MaxDirs skill
\* directories, no Codex config file, an empty companion root, no checkout
\* directory in the temp directory.
InitDisks ==
  {[EmptyDisk EXCEPT !.dirs = [p \in SkillPaths |-> IF p \in S THEN c[p] ELSE NoDir]] :
     <<S, c>> \in UNION {{<<S, c>> : c \in [S -> InitContents]} :
                S \in {T \in SUBSET InitPaths : Cardinality(T) <= MaxDirs}}}

IsConventionA(t) ==
  \/ t = "vscode" /\ CopilotRoot = NoPath
  \/ t = "claude" /\ claudeVariant = "subfolder"

UnderSomeRoot(t, p) == SomeIn(GetRoots(t), LAMBDA r : IsUnderRoot(p, r))

\* Another copy with the same lower-cased name under one of the target's roots.
NameCollision(d, t, key, p) ==
  \E i \in 1..Len(Discovered(d)) :
    LET c == Discovered(d)[i]
    IN /\ c.path # p
       /\ UnderSomeRoot(t, c.path)
       /\ Lower(ParsedName(d, c.path)) = key

\* Follows one skill through "disable, then enable" on a Convention-A target:
\* stage 1 after the disabling toggle (with the directory's original place and
\* contents, and whether its name collided with another copy), stage 2 after
\* the enabling toggle of the same skill that follows it.
TrackRoundTrip(d, targetId, out) ==
  IF ~out.ok \/ ~IsConventionA(targetId) THEN NoRoundTrip
  ELSE IF out.before = "enabled" /\ out.requested = "disable" /\ Len(out.path) = 2
    THEN [stage |-> 1, target |-> targetId, key |-> out.key, path |-> out.path,
          content |-> DirAt(d, out.path),
          collision |-> NameCollision(d, targetId, out.key, out.path)]
  ELSE IF /\ rt.stage = 1
          /\ rt.target = targetId
          /\ rt.key = out.key
          /\ out.before = "disabled"
          /\ out.requested = "enable"
    THEN [rt EXCEPT !.stage = 2]
  ELSE NoRoundTrip

ToggleRecord(svc, skillId, targetId, out) ==
  [op |-> "toggle", svc |-> svc, skillId |-> skillId, target |-> targetId,
   key |-> out.key, before |-> out.before, requested |-> out.requested,
   path |-> out.path, result |-> IF out.ok THEN "ok" ELSE "error", err |-> out.err]

\* ----------------------------------------------------------------- actions
Init ==
  /\ disk \in InitDisks
  /\ settings = [vscodeCopilotRoot |-> NoPath]
  /\ claudeVariant \in ClaudeVariants
  /\ last = NoOp
  /\ rt = NoRoundTrip
  /\ ops = 0

\* SkillsService.listSkills.
ListSkillsOp ==
  LET listing == Listing(disk)
  IN /\ ops < MaxOps
     /\ ops' = ops + 1
     /\ disk' = listing.disk
     /\ last' = [op |-> "list", result |-> listing.skills]
     /\ UNCHANGED <<settings, claudeVariant, rt>>

\* The skills:toggle handler with the later service.
ToggleSkillTarget(listing, skillId, targetId) ==
  LET out == ServiceToggleSkillTarget(listing, skillId, targetId)
  IN /\ ops < MaxOps
     /\ ops' = ops + 1
     /\ disk' = out.disk
     /\ last' = ToggleRecord(2, skillId, targetId, out)
     /\ rt' = TrackRoundTrip(disk, targetId, out)
     /\ UNCHANGED <<settings, claudeVariant>>

\* The skills:toggle handler with the first service.
ToggleSkillTargetV1(listing, skillId, targetId) ==
  LET out == ServiceToggleV1(listing, skillId, targetId)
  IN /\ ops < MaxOps
     /\ ops' = ops + 1
     /\ disk' = out.disk
     /\ last' = ToggleRecord(1, skillId, targetId, out)
     /\ rt' = TrackRoundTrip(disk, targetId, out)
     /\ UNCHANGED <<settings, claudeVariant>>

\* settings:update of vscodeCopilotRoot.
UpdateSettings(root) ==
  /\ ops < MaxOps
  /\ ops' = ops + 1
  /\ settings' = [settings EXCEPT !.vscodeCopilotRoot = root]
  /\ last' = [op |-> "settings"]
  /\ rt' = NoRoundTrip
  /\ UNCHANGED <<disk, claudeVariant>>

\* The ids a caller may pass: those of the current listing and a stale one.
Toggle ==
  /\ ops < MaxOps
  /\ LET listing == Listing(disk)
     IN \E id \in IdsOf(listing.skills) \cup {BogusId}, t \in TargetIds \cup {UnknownTargetId} :
          ToggleSkillTarget(listing, id, t)

ToggleV1 ==
  /\ ops < MaxOps
  /\ LET listing == Listing(disk)
     IN \E id \in IdsOf(listing.skills) \cup {BogusId}, t \in TargetIds \cup {UnknownTargetId} :
          ToggleSkillTargetV1(listing, id, t)

Configure == \E root \in {NoPath, CompanionPath} : UpdateSettings(root)

Next == ListSkillsOp \/ Toggle \/ Configure

Spec == Init /\ [][Next]_vars

\* The same program with the first version of the service.
NextV1 == ListSkillsOp \/ ToggleV1 \/ Configure

SpecV1 == Init /\ [][NextV1]_vars

\* The program run with either version of the service.
NextBoth == ListSkillsOp \/ Toggle \/ ToggleV1 \/ Configure

SpecBoth == Init /\ [][NextBoth]_vars

\* ------------------------------------------------------ adapter interface
ManifestPaths(d) == {p \in SkillPaths : HasManifest(d, p)}

\* SkillTarget.setEnablement called directly with the record of a skill
\* directory found on disk.
AdapterSetEnablement(t, p, enabled) ==
  LET out == SetEnablement(t, disk, p, enabled)
  IN /\ ops < MaxOps
     /\ ops' = ops + 1
     /\ disk' = out.disk
     /\ last' = [op |-> "setEnablement", target |-> t, enabled |-> enabled,
                 foreign |-> ~UnderSomeRoot(t, p),
                 result |-> IF out.ok THEN "ok" ELSE "error"]
     /\ rt' = NoRoundTrip
     /\ UNCHANGED <<settings, claudeVariant>>

AdapterCall ==
  \E t \in TargetIds, p \in ManifestPaths(disk), enabled \in BOOLEAN :
    AdapterSetEnablement(t, p, enabled)

NextAdapter == AdapterCall \/ Configure

SpecAdapter == Init /\ [][NextAdapter]_vars

\* ---------------------------------------------------------------- install
\* At most this many skill folders are found in a cloned repository.
MaxCandidates == 2

\* At most this many installs are run.
MaxInstalls == 1

\* What a folder of a cloned repository holds.
RepoContents == {"Foo", Unnamed, NoManifest}

\* The folders of a checkout in the order findSkillDirs walks them.
RepoTrees ==
  UNION {[1..n -> [dir : Folders, content : RepoContents]] : n \in 0..MaxCandidates}

\* request.targetId and request.skillName when the caller leaves them out.
NoTarget == "<no target>"

NoFilter == ""

InstallTargets == {NoTarget, "codex", UnknownTargetId}

SkillNameFilters == {NoFilter, "Foo", "bar", "zzz"}

InstallRequests == [targetId : InstallTargets, skillName : SkillNameFilters]

\* What the environment does to one install: whether git clone exits with 0,
\* the tree it checks out, and which file-system calls fail.
\* Runs that differ only in something the install never gets to (the tree of
\* a failed clone, anything after a failed mkdtemp) are listed once.
InstallRuns ==
  {r \in [cloneOk : BOOLEAN, tree : RepoTrees, mkdtempFails : BOOLEAN,
          copyFails : BOOLEAN, rmFails : BOOLEAN] :
     /\ r.mkdtempFails => (r.cloneOk /\ r.tree = <<>> /\ ~r.copyFails /\ ~r.rmFails)
     /\ ~r.cloneOk => (r.tree = <<>> /\ ~r.copyFails)}

Message(text, path) == [text |-> text, path |-> path]

\* findSkillDirs: one candidate per folder with a SKILL.md, named by
\* parseSkillFile (the frontmatter name, else the folder's name).
FindSkillDirs(tree) ==
  LET found == SelectSeq(tree, LAMBDA e : e.content # NoManifest)
  IN [i \in 1..Len(found) |->
        [dir |-> found[i].dir, content |-> found[i].content,
         name |-> IF found[i].content = Unnamed THEN found[i].dir ELSE found[i].content]]

\* The choice without the fallback: a filter that matches nothing installs
\* nothing.
ToInstallNoFallback(skillDirs, skillName) ==
  IF skillName # NoFilter
  THEN SelectSeq(skillDirs, LAMBDA c : Lower(c.name) = Lower(skillName))
  ELSE skillDirs

\* The candidates to install: those matching the skillName filter, or all of
\* them when there is no filter or nothing matches it.
ToInstall(skillDirs, skillName) ==
  LET filtered == IF skillName # NoFilter
                  THEN SelectSeq(skillDirs, LAMBDA c : Lower(c.name) = Lower(skillName))
                  ELSE skillDirs
  IN IF Len(filtered) > 0 THEN filtered ELSE skillDirs

\* The target named by the request, else settings.defaultInstallTarget (never
\* set here), else "vscode".
InstallTargetId(request) ==
  IF request.targetId # NoTarget THEN request.targetId ELSE "vscode"

\* The first root of the install target, NoPath for an unknown target.
InstallTargetRoot(targetId) ==
  IF targetId \in TargetIds THEN GetRoots(targetId)[1] ELSE NoPath

\* copyDir from the checkout: mkdir the destination, then copy every file.
\* A copy that fails after the mkdir leaves a directory without SKILL.md.
CopyFromCheckout(d, candidate, destination, fails) ==
  [d EXCEPT !.dirs[destination] = IF fails THEN NoManifest ELSE candidate.content]

\* The copy loop of installSkillWithProgress from candidate k on: it stops
\* at the first destination that exists (conflictAt) or the first copy that
\* throws (failedAt); copied counts the candidates copied before that.
RECURSIVE CopyLoop(_, _, _, _, _)
CopyLoop(d, targetRoot, toInstall, k, copyFails) ==
  IF k > Len(toInstall) THEN [disk |-> d, conflictAt |-> 0, failedAt |-> 0]
  ELSE LET destination == Join(targetRoot, toInstall[k].dir)
       IN IF PathExists(d, destination)
          THEN [disk |-> d, conflictAt |-> k, failedAt |-> 0]
          ELSE IF copyFails /\ k = Len(toInstall)
          THEN [disk |-> CopyFromCheckout(d, toInstall[k], destination, TRUE),
                conflictAt |-> 0, failedAt |-> k]
          ELSE CopyLoop(CopyFromCheckout(d, toInstall[k], destination, FALSE),
                        targetRoot, toInstall, k + 1, copyFails)

\* The copy loop of the first installSkill: no test of the destination, so
\* copyDir writes the candidate's files over whatever is there.
RECURSIVE CopyLoopV1(_, _, _, _, _)
CopyLoopV1(d, targetRoot, toInstall, k, copyFails) ==
  IF k > Len(toInstall) THEN [disk |-> d, conflictAt |-> 0, failedAt |-> 0]
  ELSE LET destination == Join(targetRoot, toInstall[k].dir)
       IN IF copyFails /\ k = Len(toInstall)
          THEN [disk |-> IF PathExists(d, destination) THEN d
                         ELSE CopyFromCheckout(d, toInstall[k], destination, TRUE),
                conflictAt |-> 0, failedAt |-> k]
          ELSE CopyLoopV1(CopyFromCheckout(d, toInstall[k], destination, FALSE),
                          targetRoot, toInstall, k + 1, copyFails)

\* Lines 433-446: with a companion root configured, every installed skill of
\* the vscode target is copied (as a directory) to <companion>/<folder>.
RECURSIVE CopyToCompanion(_, _, _)
CopyToCompanion(d, toInstall, k) ==
  IF k > Len(toInstall) THEN d
  ELSE CopyToCompanion(
         [d EXCEPT !.links[toInstall[k].dir] = [kind |-> "copy", target |-> NoPath]],
         toInstall, k + 1)

\* The finally block without the removal of the checkout.
RemoveCheckoutSkipped(d, checkoutDir, fails) == d

\* fs.rm(checkoutDir, {recursive, force}): the checkout is gone unless the
\* removal fails.
RemoveCheckout(d, checkoutDir, fails) ==
  IF fails THEN d ELSE [d EXCEPT !.temp = @ \ {checkoutDir}]

\* What an install call leaves behind: the disk, how the call ended
\* ("ok" and "error" are returned results, "thrown" is a rejected promise),
\* the message, the progress events, the checkout directory it created
\* (0 for none), and what the copy loop did.
InstallOutcome(d, result, message, events, checkoutDir, toInstall, loop) ==
  [disk |-> d, result |-> result, message |-> message, events |-> events,
   checkoutDir |-> checkoutDir, toInstall |-> toInstall,
   conflictAt |-> loop.conflictAt, failedAt |-> loop.failedAt]

NoLoop == [conflictAt |-> 0, failedAt |-> 0]

\* The body of the try block, lines 409-448: the disk it leaves, the result
\* it returns and the events it emits.
InstallTry(d, request, run, targetId, targetRoot) ==
  IF ~run.cloneOk
  THEN [disk |-> d, result |-> "error", message |-> Message("git clone failed", NoPath),
        events |-> <<"clone", "output", "error">>, toInstall |-> <<>>, loop |-> NoLoop]
  ELSE
    LET skillDirs == FindSkillDirs(run.tree)
        toInstall == ToInstall(skillDirs, request.skillName)
        loop == CopyLoop(d, targetRoot, toInstall, 1, run.copyFails)
    IN IF Len(skillDirs) = 0
       THEN [disk |-> d, result |-> "error",
             message |-> Message("No SKILL.md files found in the repository.", NoPath),
             events |-> <<"clone", "scan", "error">>, toInstall |-> <<>>, loop |-> NoLoop]
       ELSE IF loop.conflictAt # 0
       THEN [disk |-> loop.disk, result |-> "error",
             message |-> Message("Skill already exists at",
                                 Join(targetRoot, toInstall[loop.conflictAt].dir)),
             events |-> <<"clone", "scan", "copy", "error">>,
             toInstall |-> toInstall, loop |-> loop]
       ELSE IF loop.failedAt # 0
       THEN [disk |-> loop.disk, result |-> "error",
             message |-> Message("copy failed", NoPath),
             events |-> <<"clone", "scan", "copy", "error">>,
             toInstall |-> toInstall, loop |-> loop]
       ELSE [disk |-> IF targetId = "vscode" /\ CopilotRoot # NoPath
                      THEN CopyToCompanion(loop.disk, toInstall, 1) ELSE loop.disk,
             result |-> "ok", message |-> Message("Installed", targetRoot),
             events |-> <<"clone", "scan", "copy", "done">>,
             toInstall |-> toInstall, loop |-> loop]

\* SkillsService.installSkillWithProgress.  checkoutDir is the fresh name
\* mkdtemp picks.  The finally block emits "cleanup" and removes the
\* checkout; when that removal throws, the call throws instead of returning.
InstallSkillWithProgress(d, request, run, checkoutDir) ==
  LET targetId == InstallTargetId(request)
      targetRoot == InstallTargetRoot(targetId)
  IN IF targetRoot = NoPath
     THEN InstallOutcome(d, "error", Message("Unknown target", NoPath),
                         <<"start", "error">>, 0, <<>>, NoLoop)
     ELSE IF run.mkdtempFails
     THEN InstallOutcome(d, "thrown", Message("mkdtemp failed", NoPath),
                         <<"start">>, 0, <<>>, NoLoop)
     ELSE LET body == InstallTry([d EXCEPT !.temp = @ \cup {checkoutDir}],
                                 request, run, targetId, targetRoot)
          IN InstallOutcome(RemoveCheckout(body.disk, checkoutDir, run.rmFails),
                            IF run.rmFails THEN "thrown" ELSE body.result,
                            IF run.rmFails THEN Message("rm failed", NoPath) ELSE body.message,
                            <<"start">> \o body.events \o <<"cleanup">>,
                            checkoutDir, body.toInstall, body.loop)

\* SkillsService.installSkill of the first service: no progress events, no
\* test of the destination, no companion copy.
InstallSkill(d, request, run, checkoutDir) ==
  LET targetId == InstallTargetId(request)
      targetRoot == InstallTargetRoot(targetId)
  IN IF targetRoot = NoPath
     THEN InstallOutcome(d, "error", Message("Unknown target", NoPath), <<>>, 0, <<>>, NoLoop)
     ELSE IF run.mkdtempFails
     THEN InstallOutcome(d, "thrown", Message("mkdtemp failed", NoPath), <<>>, 0, <<>>, NoLoop)
     ELSE LET created == [d EXCEPT !.temp = @ \cup {checkoutDir}]
              skillDirs == FindSkillDirs(run.tree)
              toInstall == ToInstall(skillDirs, request.skillName)
              loop == CopyLoopV1(created, targetRoot, toInstall, 1, run.copyFails)
              body ==
                IF ~run.cloneOk
                THEN [disk |-> created, result |-> "error",
                      message |-> Message("git clone failed", NoPath),
                      toInstall |-> <<>>, loop |-> NoLoop]
                ELSE IF Len(skillDirs) = 0
                THEN [disk |-> created, result |-> "error",
                      message |-> Message("No SKILL.md files found in the repository.", NoPath),
                      toInstall |-> <<>>, loop |-> NoLoop]
                ELSE IF loop.failedAt # 0
                THEN [disk |-> loop.disk, result |-> "error",
                      message |-> Message("copy failed", NoPath),
                      toInstall |-> toInstall, loop |-> loop]
                ELSE [disk |-> loop.disk, result |-> "ok",
                      message |-> Message("Installed", targetRoot),
                      toInstall |-> toInstall, loop |-> loop]
          IN InstallOutcome(RemoveCheckout(body.disk, checkoutDir, run.rmFails),
                            IF run.rmFails THEN "thrown" ELSE body.result,
                            IF run.rmFails THEN Message("rm failed", NoPath) ELSE body.message,
                            <<>>, checkoutDir, body.toInstall, body.loop)

\* What the caller passed, what the environment did and what came of it.
InstallRecord(svc, request, run, before, out) ==
  [op |-> "install", svc |-> svc, request |-> request, run |-> run, before |-> before,
   targetRoot |-> InstallTargetRoot(InstallTargetId(request)),
   result |-> out.result, message |-> out.message, events |-> out.events,
   checkoutDir |-> out.checkoutDir, toInstall |-> out.toInstall,
   conflictAt |-> out.conflictAt, failedAt |-> out.failedAt]

\* Skill directories that may exist before an install.
InstallInitPaths == {<<"V", "foo">>, <<"V", "bar">>, <<"XH", "foo">>}

InstallDisks ==
  {d \in InitDisks : \A p \in SkillPaths : PathExists(d, p) => p \in InstallInitPaths}

\* The program started with either value of the persisted companion root.
InitInstall ==
  /\ disk \in InstallDisks
  /\ settings \in [vscodeCopilotRoot : {NoPath, CompanionPath}]
  /\ claudeVariant \in ClaudeVariants
  /\ last = NoOp
  /\ rt = NoRoundTrip
  /\ ops = 0

\* The skills:install handler with the later service.
Install ==
  /\ ops < MaxInstalls
  /\ \E request \in InstallRequests, run \in InstallRuns :
       LET out == InstallSkillWithProgress(disk, request, run, ops + 1)
       IN /\ disk' = out.disk
          /\ last' = InstallRecord(2, request, run, disk, out)
  /\ ops' = ops + 1
  /\ rt' = NoRoundTrip
  /\ UNCHANGED <<settings, claudeVariant>>

\* The skills:install handler with the first service.
InstallV1 ==
  /\ ops < MaxInstalls
  /\ \E request \in InstallRequests, run \in InstallRuns :
       LET out == InstallSkill(disk, request, run, ops + 1)
       IN /\ disk' = out.disk
          /\ last' = InstallRecord(1, request, run, disk, out)
  /\ ops' = ops + 1
  /\ rt' = NoRoundTrip
  /\ UNCHANGED <<settings, claudeVariant>>

NextInstall == Install \/ InstallV1

SpecInstall == InitInstall /\ [][NextInstall]_vars

\* ------------------------------------------- Codex config file, stepwise
\* At most this many entries are in the config list when the program starts.
MaxEntries == 2

\* The records handed to the Codex adapter: a skill under each root, and the
\* first one again with a path that is not in normal form.
CodexRecordPaths == {<<"XH", "foo">>, <<"XH", ".", "foo">>, <<"XS", "bar">>}

\* Entries of skills.config as a user or an earlier run may have left them:
\* enabling and disabling ones, some without a path.
ConfigEntries == [path : CodexRecordPaths \cup {NoPath}, enabled : BOOLEAN]

\* The config file the program may find: none, a file that parses, or a file
\* that TOML.parse rejects (its keys and entries are then what the user wrote
\* around the syntax error).  `other` tells whether the file has keys besides
\* skills.config.
InitConfigs ==
  {[state |-> "absent", other |-> FALSE, entries |-> <<>>]}
    \cup {[state |-> st, other |-> o, entries |-> es] :
            st \in {"ok", "unparseable"},
            o \in BOOLEAN,
            es \in UNION {[1..n -> ConfigEntries] : n \in 0..MaxEntries}}

CodexDisks ==
  {[EmptyDisk EXCEPT !.dirs[<<"XH", "foo">>] = "Foo", !.dirs[<<"XS", "bar">>] = Unnamed,
                     !.config = c] : c \in InitConfigs}

InitCodex ==
  /\ disk \in CodexDisks
  /\ settings = [vscodeCopilotRoot |-> NoPath]
  /\ claudeVariant \in ClaudeVariants
  /\ last = NoOp
  /\ rt = NoRoundTrip
  /\ ops = 0

\* fs.writeFile opens the config path for writing, which truncates the
\* file, and writes the serialized text afterwards.
WriteFileOpened(d) ==
  [d EXCEPT !.config = [state |-> "partial", other |-> FALSE, entries |-> <<>>]]

\* setEnablement up to the point where writeConfig has opened the file.
CodexSetEnablementBegin(p, enabled) ==
  /\ ops < MaxOps
  /\ last.op # "writing"
  /\ ops' = ops + 1
  /\ disk' = WriteFileOpened(disk)
  /\ last' = [op |-> "writing", path |-> p, enabled |-> enabled, old |-> ReadConfig(disk),
              file |-> disk.config,
              pending |-> CodexSetEnablement(disk, p, enabled).disk.config,
              seenPath |-> NoPath, seen |-> "none"]
  /\ UNCHANGED <<settings, claudeVariant, rt>>

\* writeFile finishes and setEnablement returns.
CodexSetEnablementEnd ==
  /\ last.op = "writing"
  /\ disk' = [disk EXCEPT !.config = last.pending]
  /\ last' = [op |-> "codexSet", path |-> last.path, enabled |-> last.enabled,
              old |-> last.old, file |-> last.file]
  /\ UNCHANGED <<settings, claudeVariant, rt, ops>>

\* The process dies between the open and the end of the write.
CodexCrash ==
  /\ last.op = "writing"
  /\ last' = [op |-> "crashed"]
  /\ UNCHANGED <<disk, settings, claudeVariant, rt, ops>>

\* getEnablement between two calls of setEnablement.
CodexGetEnablementCall(p) ==
  /\ ops < MaxOps
  /\ last.op # "writing"
  /\ ops' = ops + 1
  /\ last' = [op |-> "codexGet", path |-> p, status |-> CodexGetEnablement(disk, p)]
  /\ disk' = CodexGetEnablementDisk(disk, p)
  /\ UNCHANGED <<settings, claudeVariant, rt>>

\* getEnablement while a write is in flight: writeFile is awaited, so another
\* handler can run before it finishes.
CodexGetEnablementDuringWrite(p) ==
  /\ last.op = "writing"
  /\ last.seenPath = NoPath
  /\ last' = [last EXCEPT !.seenPath = p, !.seen = CodexGetEnablement(disk, p)]
  /\ disk' = CodexGetEnablementDisk(disk, p)
  /\ UNCHANGED <<settings, claudeVariant, rt, ops>>

CodexSet == \E p \in CodexRecordPaths, enabled \in BOOLEAN : CodexSetEnablementBegin(p, enabled)

CodexGet == \E p \in CodexRecordPaths : CodexGetEnablementCall(p)

CodexGetDuringWrite == \E p \in CodexRecordPaths : CodexGetEnablementDuringWrite(p)

NextCodex ==
  CodexSet \/ CodexSetEnablementEnd \/ CodexCrash \/ CodexGet \/ CodexGetDuringWrite

SpecCodex == InitCodex /\ [][NextCodex]_vars

\* ------------------------------------------------------------------ parser
\* A manifest has at most this many lines.
MaxLines == 4

FRONTMATTER_DELIM == "---"

\* The lines a manifest is made of: a blank line, the delimiter, the
\* delimiter after two spaces, three ways of writing a name, and body text
\* (a comment when it stands inside the frontmatter).
ManifestLines ==
  {"", "---", "  ---", "name: Foo", "name: 'Foo'", "name:  Bar ", "# body"}

\* The manifests read: content.split(/\r?\n/) of the file, one element per line.
ManifestContents == UNION {[1..n -> ManifestLines] : n \in 1..MaxLines}

\* String.prototype.trim of a line.
TrimLine(line) ==
  CASE line = "  ---" -> "---"
    [] line = "name:  Bar " -> "name:  Bar"
    [] OTHER -> line

\* The value a `name:` line gives, with surrounding whitespace and quotes
\* stripped; "" for a line that is not a `name:` line.
NameValue(line) ==
  CASE line = "name: Foo" -> "Foo"
    [] line = "name: 'Foo'" -> "Foo"
    [] line = "name:  Bar " -> "Bar"
    [] OTHER -> ""

IsNameLine(line) == NameValue(line) # ""

\* content.trimStart().startsWith("---"): leading blank lines and the leading
\* spaces of the first non-blank line are skipped.
TrimmedStartsWithDelim(lines) ==
  \E i \in 1..Len(lines) :
    /\ \A j \in 1..(i - 1) : lines[j] = ""
    /\ lines[i] # ""
    /\ TrimLine(lines[i]) \in {FRONTMATTER_DELIM}

\* The loop of lines 30-36: the first line after the first one whose trim is
\* the delimiter, 0 when there is none.
EndIndex(lines) ==
  IF \E i \in 2..Len(lines) : TrimLine(lines[i]) = FRONTMATTER_DELIM
  THEN CHOOSE i \in 2..Len(lines) :
         /\ TrimLine(lines[i]) = FRONTMATTER_DELIM
         /\ \A j \in 2..(i - 1) : TrimLine(lines[j]) # FRONTMATTER_DELIM
  ELSE 0

\* frontmatter.name of the block: YAML.parseDocument gives the value of the
\* `name` key; with the key repeated it reports an error and the line-by-line
\* fallback keeps the last value.  "" when the block has no name.
FrontmatterName(raw) ==
  LET names == SelectSeq(raw, IsNameLine)
  IN IF names = <<>> THEN "" ELSE NameValue(names[Len(names)])

\* parseSkillFile: the name of the manifest in directory `folder`.
ParseSkillFile(lines, folder) ==
  IF ~TrimmedStartsWithDelim(lines) THEN folder
  ELSE LET endIndex == EndIndex(lines)
       IN IF endIndex = 0 THEN folder
          ELSE LET name == FrontmatterName(SubSeq(lines, 2, endIndex - 1))
               IN IF name # "" THEN name ELSE folder

InitParser ==
  /\ disk = EmptyDisk
  /\ settings = [vscodeCopilotRoot |-> NoPath]
  /\ claudeVariant = "subfolder"
  /\ last \in [op : {"manifest"}, lines : ManifestContents, folder : {"foo"}]
  /\ rt = NoRoundTrip
  /\ ops = 0

\* parseSkillFile is called on the manifest.
ParseSkillFileOp ==
  /\ last.op = "manifest"
  /\ last' = [op |-> "parsed", lines |-> last.lines, folder |-> last.folder,
              name |-> ParseSkillFile(last.lines, last.folder)]
  /\ UNCHANGED <<disk, settings, claudeVariant, rt, ops>>

NextParser == ParseSkillFileOp

SpecParser == InitParser /\ [][NextParser]_vars

\* ------------------------------------------------------------------ delete
\* Every root of every target, as deleteSkillAll walks them.
TargetRootSet ==
  UNION {{GetRoots(t)[i] : i \in 1..Len(GetRoots(t))} : t \in TargetIds}

\* fs.rm of <root>/<skillName> and <root>/.disabled/<skillName> for every
\* root of every target.
RemoveFromTargetRoots(d, skillName) ==
  [d EXCEPT !.dirs =
     [p \in SkillPaths |->
        IF \E r \in TargetRootSet :
             p = Join(r, skillName) \/ p = Join(GetDisabledRoot(r), skillName)
        THEN NoDir ELSE d.dirs[p]]]

\* SkillsService.deleteSkillAll.  listing is the result of the listSkills
\* call it starts with.
DeleteSkillAll(listing, skillId) ==
  LET skills == listing.skills
      s == SkillIndex(skills, skillId)
  IN IF s = 0
     THEN [result |-> "error", key |-> "", skillName |-> "", disk |-> listing.disk]
     ELSE LET skillName == Basename(skills[s].path)
              removed == RemoveFromTargetRoots(listing.disk, skillName)
          IN [result |-> "ok", key |-> Lower(skills[s].name), skillName |-> skillName,
              disk |-> IF CopilotRoot # NoPath
                       THEN [removed EXCEPT !.links[skillName] = NoLink]
                       ELSE removed]

\* The skills:deleteAll handler.
Delete ==
  /\ ops < MaxOps
  /\ LET listing == Listing(disk)
     IN \E id \in IdsOf(listing.skills) \cup {BogusId} :
          LET out == DeleteSkillAll(listing, id)
          IN /\ disk' = out.disk
             /\ last' = [op |-> "delete", skillId |-> id, key |-> out.key,
                         skillName |-> out.skillName, result |-> out.result,
                         before |-> disk]
  /\ ops' = ops + 1
  /\ rt' = NoRoundTrip
  /\ UNCHANGED <<settings, claudeVariant>>

NextDelete == Delete \/ Toggle \/ Configure

SpecDelete == Init /\ [][NextDelete]_vars

\* ---------------------------------------------------------- settings store
\* At most this many updateSettings calls are in flight together.
MaxCalls == 2

Calls == 1..MaxCalls

\* this.cache before the first getSettings.
NoCache == [cache |-> "null"]

\* A file that does not exist, and one that is empty or holds a mix of the
\* bytes of several writers.
AbsentFile == [file |-> "absent"]

PartialFile == [file |-> "partial"]

\* DEFAULT_SETTINGS, with the optional keys at their unset values.
DEFAULT_SETTINGS == [defaultInstallTarget |-> "", skillsmpApiKey |-> ""]

SettingsValues == [defaultInstallTarget : {"", "vscode"}, skillsmpApiKey : {"", "k"}]

\* The partial updates the settings form sends, one key each.
Partials ==
  {[key |-> "defaultInstallTarget", value |-> "codex"],
   [key |-> "skillsmpApiKey", value |-> "k"],
   [key |-> "skillsmpApiKey", value |-> "kk"]}

\* { ...current, ...partial }
Merge(current, partial) == [current EXCEPT ![partial.key] = partial.value]

\* readJsonFile: the parsed file, {} when it is missing or does not parse;
\* spread over DEFAULT_SETTINGS by getSettings.
ReadJsonFile(d) ==
  IF d.settingsFile \in {AbsentFile, PartialFile} THEN DEFAULT_SETTINGS ELSE d.settingsFile

IdleCall == [pc |-> "idle", partial |-> [key |-> "", value |-> ""], next |-> NoCache, fd |-> "none"]

\* The store after construction, or after an earlier getSettings filled the
\* cache from the file.
InitSettings ==
  /\ \E file \in {AbsentFile} \cup SettingsValues :
       /\ disk = [EmptyDisk EXCEPT !.settingsFile = file]
       /\ settings \in {NoCache, ReadJsonFile([settingsFile |-> file])}
       /\ last = [op |-> "updateSettings", initial |-> ReadJsonFile([settingsFile |-> file]),
                  calls |-> [c \in Calls |-> IdleCall]]
  /\ claudeVariant = "subfolder"
  /\ rt = NoRoundTrip
  /\ ops = 0

\* updateSettings(partial) is called.  With a cache, getSettings returns it
\* and the new cache is set before any other handler runs; without one,
\* getSettings starts reading the file.
UpdateSettingsCall(c, partial) ==
  /\ last.calls[c].pc = "idle"
  /\ IF settings # NoCache
     THEN /\ settings' = Merge(settings, partial)
          /\ last' = [last EXCEPT !.calls[c] =
                        [pc |-> "write", partial |-> partial,
                         next |-> Merge(settings, partial), fd |-> "none"]]
     ELSE /\ settings' = settings
          /\ last' = [last EXCEPT !.calls[c] =
                        [pc |-> "reading", partial |-> partial, next |-> NoCache, fd |-> "none"]]
  /\ UNCHANGED <<disk, claudeVariant, rt, ops>>

\* readJsonFile returns: getSettings sets the cache from the file, and
\* updateSettings sets it again to the merge with its partial.
ReadDone(c) ==
  /\ last.calls[c].pc = "reading"
  /\ LET next == Merge(ReadJsonFile(disk), last.calls[c].partial)
     IN /\ settings' = next
        /\ last' = [last EXCEPT !.calls[c].pc = "write", !.calls[c].next = next]
  /\ UNCHANGED <<disk, claudeVariant, rt, ops>>

\* writeFile opens settings.json.tmp, creating or truncating it.
OpenTmp(c) ==
  /\ last.calls[c].pc = "write"
  /\ disk' = [disk EXCEPT !.settingsTmp = PartialFile]
  /\ last' = [last EXCEPT !.calls[c].pc = "writing", !.calls[c].fd = "tmp"]
  /\ UNCHANGED <<settings, claudeVariant, rt, ops>>

\* writeFile finishes.  The text goes to the file the descriptor is open
\* on, under whatever name that file has by now; when another writer has the
\* same file open the result is this text or a mix of the two.
WriteDone(c) ==
  /\ last.calls[c].pc = "writing"
  /\ \E content \in
         {last.calls[c].next} \cup
           (IF \E o \in Calls \ {c} :
                 last.calls[o].pc = "writing" /\ last.calls[o].fd = last.calls[c].fd
            THEN {PartialFile} ELSE {}) :
       disk' = CASE last.calls[c].fd = "tmp" -> [disk EXCEPT !.settingsTmp = content]
                 [] last.calls[c].fd = "file" -> [disk EXCEPT !.settingsFile = content]
                 [] OTHER -> disk
  /\ last' = [last EXCEPT !.calls[c].pc = "rename"]
  /\ UNCHANGED <<settings, claudeVariant, rt, ops>>

\* fs.rename(tmpPath, filePath): fails with ENOENT when another call has
\* already renamed the temp file away; otherwise the temp file, with every
\* descriptor open on it, becomes the settings file.
Rename(c) ==
  /\ last.calls[c].pc = "rename"
  /\ IF disk.settingsTmp = AbsentFile
     THEN /\ disk' = disk
          /\ last' = [last EXCEPT !.calls[c].pc = "failed"]
     ELSE /\ disk' = [disk EXCEPT !.settingsFile = disk.settingsTmp, !.settingsTmp = AbsentFile]
          /\ last' = [last EXCEPT !.calls =
                        [o \in Calls |->
                           IF o = c THEN [last.calls[o] EXCEPT !.pc = "done"]
                           ELSE [last.calls[o] EXCEPT !.fd =
                                   CASE @ = "tmp" -> "file"
                                     [] @ = "file" -> "unlinked"
                                     [] OTHER -> @]]]
  /\ UNCHANGED <<settings, claudeVariant, rt, ops>>

StartUpdate == \E c \in Calls, partial \in Partials : UpdateSettingsCall(c, partial)

FinishRead == \E c \in Calls : ReadDone(c)

StartWrite == \E c \in Calls : OpenTmp(c)

FinishWrite == \E c \in Calls : WriteDone(c)

RenameTmp == \E c \in Calls : Rename(c)

NextSettings == StartUpdate \/ FinishRead \/ StartWrite \/ FinishWrite \/ RenameTmp

SpecSettings == InitSettings /\ [][NextSettings]_vars

\* ------------------------------------------------------------------ claims
ListedEntries == {last.result[i] : i \in 1..Len(last.result)}

StatesOf(entry) == {entry.targets[i] : i \in 1..Len(entry.targets)}

ElementsOf(seq) == {seq[i] : i \in 1..Len(seq)}

CopiesOnDisk == ElementsOf(Discovered(disk))

\* C1: a listSkills call, with every getEnablement call it makes, leaves the
\* whole on-disk state (skill directories, config file, companion entries)
\* as it found it.
C1_ListSkillsIsPureRead == [][last'.op = "list" => disk' = disk]_vars

\* A listing taken after a Codex toggle wrote the config file, in which
\* getEnablement read that file and reported "disabled".
C1_Witness ==
  /\ last.op = "list"
  /\ disk.config.state = "ok"
  /\ \E e \in ListedEntries : \E ts \in StatesOf(e) :
       ts.targetId = "codex" /\ ts.status = "disabled"

\* C2: in every listing no two entries have the same name ignoring case, and
\* the entry of a name lists every root under which a copy with that name
\* (ignoring case) was discovered.
C2_MergedByLowerCasedName ==
  last.op = "list" =>
    /\ \A i, j \in 1..Len(last.result) :
         i # j => Lower(last.result[i].name) # Lower(last.result[j].name)
    /\ \A c \in CopiesOnDisk :
         \E e \in ListedEntries :
           /\ Lower(e.name) = Lower(ParsedName(disk, c.path))
           /\ c.root \in ElementsOf(e.sourceRoots)

\* Two roots each hold folder "foo" with manifest name "Foo"; the listing has
\* the single entry "Foo" with both roots.
C2_Witness ==
  /\ last.op = "list"
  /\ DirAt(disk, <<"V", "foo">>) = "Foo"
  /\ DirAt(disk, <<"CH", "foo">>) = "Foo"
  /\ Len(last.result) = 1
  /\ last.result[1].name = "Foo"
  /\ {<<"V">>, <<"CH">>} \subseteq ElementsOf(last.result[1].sourceRoots)

SubfolderStatus(p, r) == IF IsUnderRoot(p, GetDisabledRoot(r)) THEN "disabled" ELSE "enabled"

ConventionATargets == {t \in TargetIds : IsConventionA(t)}

ParkedPath(p) == Join(GetDisabledRoot(Dirname(p)), Basename(p))

\* C5: a skill enabled at <root>/<folder> that is toggled to disabled and
\* then toggled to enabled on a Convention-A target is back at
\* <root>/<folder> with its original contents, and nothing is left at
\* <root>/.disabled/<folder>, provided no other copy under the target's roots
\* carries the same name.
C5_RoundTrip ==
  (rt.stage = 2 /\ ~rt.collision) =>
    /\ DirAt(disk, rt.path) = rt.content
    /\ DirAt(disk, ParkedPath(rt.path)) = NoDir

\* Both toggles of the round trip have happened.
C5_Witness == rt.stage = 2 /\ ~rt.collision /\ last.op = "toggle" /\ last.result = "ok"

Opposite(status) == IF status = "enabled" THEN "disabled" ELSE "enabled"

StatusListedFor(d, key, targetId) ==
  LET skills == ListSkills(d)
  IN {ts.status : ts \in UNION {
        {skills[i].targets[j] : j \in {m \in 1..Len(skills[i].targets) :
                                         skills[i].targets[m].targetId = targetId}} :
        i \in {n \in 1..Len(skills) : Lower(skills[n].name) = key}}}

\* C6: a toggle requests disable exactly when the target's status was
\* "enabled" and enable otherwise, and after a successful toggle on a
\* Convention-A target the next listing still has the skill and reports the
\* opposite status for that target.
C6_ToggleFlipsStatus ==
  (last.op = "toggle" /\ last.result = "ok") =>
    /\ (last.requested = "disable") = (last.before = "enabled")
    /\ (IsConventionA(last.target) /\ last.before \in {"enabled", "disabled"}) =>
         StatusListedFor(disk, last.key, last.target) = {Opposite(last.before)}

NotInstalledToggle == last'.op = "toggle" /\ last'.before = "not-installed"

\* The claim as stated: every toggle of a target where the skill is
\* "not-installed" fails and changes nothing on disk.
C7_NotInstalledToggleAborts ==
  [][NotInstalledToggle => (last'.result = "error" /\ disk' = disk)]_vars

\* C7: a toggle of a target where the skill is "not-installed" fails with an
\* error and changes nothing on disk when the service delegates straight to
\* SkillRegistry.toggleSkillTarget (first service); the later service
\* instead makes sure a directory exists at <managed root>/<folder> of the
\* target (copying the skill there unless something is already present),
\* asks the adapter to enable that path, and touches no skill directory
\* other than that one and its `.disabled` counterpart.
C7_NotInstalledToggleByService ==
  [][NotInstalledToggle =>
       IF last'.svc = 1
       THEN last'.result = "error" /\ disk' = disk
       ELSE /\ last'.requested = "enable"
            /\ UnderSomeRoot(last'.target, last'.path)
            /\ Len(last'.path) = 2
            /\ PathExists(disk', last'.path)
            /\ \A p \in SkillPaths \ {last'.path, ParkedPath(last'.path)} :
                 DirAt(disk', p) = DirAt(disk, p)]_vars

\* The first service has refused to toggle a target that has no copy.
C7_Witness ==
  /\ last.op = "toggle"
  /\ last.svc = 1
  /\ last.before = "not-installed"
  /\ last.result = "error"
  /\ last.err = "does not have this skill installed"

\* C8: a toggle of a target whose supportsEnablement is false is always an
\* error and changes nothing on disk, whatever the skill's status for it.
C8_UnsupportedNeverAttempted ==
  [][(last'.op = "toggle" /\ last'.target \in TargetIds
        /\ ~SupportsEnablement(last'.target))
       => (last'.result = "error" /\ disk' = disk)]_vars

UnknownTargetToggle == last'.op = "toggle" /\ last'.target \notin TargetIds

\* The claim as stated: a toggle with a target id outside listTargets()
\* fails with the "unknown target" error and writes nothing, for every
\* skill id.
C9_UnknownTargetAnyId ==
  [][UnknownTargetToggle =>
       (last'.result = "error" /\ last'.err = "Unknown target" /\ disk' = disk)]_vars

\* C9: a toggle with a target id outside listTargets() fails and writes
\* nothing; the error is "unknown target" when the skill id is in the current
\* listing and "Skill not found" when it is not.
C9_UnknownTargetRejected ==
  [][UnknownTargetToggle =>
       /\ last'.result = "error"
       /\ disk' = disk
       /\ last'.err = IF last'.skillId \in IdsOf(ListSkills(disk))
                      THEN "Unknown target" ELSE "Skill not found"]_vars

\* A listed skill was toggled for a target id that no adapter has.
C9_Witness ==
  /\ last.op = "toggle"
  /\ last.target = UnknownTargetId
  /\ last.skillId # BogusId
  /\ last.result = "error"
  /\ last.err = "Unknown target"

\* C10: every adapter's setEnablement fails, and changes nothing on disk,
\* when the record's path lies under none of the adapter's roots.
C10_ForeignPathRejected ==
  [][(last'.op = "setEnablement" /\ last'.foreign)
       => (last'.result = "error" /\ disk' = disk)]_vars

\* The other place of a Convention-A skill directory: under `.disabled` for
\* an active one, directly under the root for a parked one.
CounterpartPath(p) ==
  IF Len(p) = 3 THEN Join(SubSeq(p, 1, 1), Basename(p)) ELSE ParkedPath(p)

SubfolderToggle ==
  /\ last'.op = "toggle"
  /\ last'.result = "ok"
  /\ last'.before \in {"enabled", "disabled"}
  /\ IsConventionA(last'.target)

\* C11: a Convention-A toggle never deletes a skill directory (one holding a
\* manifest, hence not empty) that already sits at the destination of the
\* move: what was there before is still there afterwards.
C11_NonEmptyDestinationKept ==
  [][(SubfolderToggle /\ HasManifest(disk, CounterpartPath(last'.path)))
       => /\ DirAt(disk', CounterpartPath(last'.path)) = DirAt(disk, CounterpartPath(last'.path))
          /\ Cardinality(ManifestPaths(disk')) >= Cardinality(ManifestPaths(disk))]_vars

\* The destination of the candidate on which the copy loop found a conflict.
ConflictDestination == Join(last.targetRoot, last.toInstall[last.conflictAt].dir)

\* An install by installSkillWithProgress met an existing destination that
\* was there before the call.
InstallMetExisting ==
  /\ last.op = "install"
  /\ last.svc = 2
  /\ last.conflictAt # 0
  /\ PathExists(last.before, ConflictDestination)

\* C12: an install that meets an entry with the candidate's folder name in
\* the destination root returns an error result whose message names the
\* existing path, and leaves the pre-existing folder as it was.
C12_ConflictLeavesExisting ==
  InstallMetExisting =>
    /\ last.result = "error"
    /\ last.message.path = ConflictDestination
    /\ DirAt(disk, ConflictDestination) = DirAt(last.before, ConflictDestination)

\* The candidates of the last install whose parsed name equals the filter
\* ignoring case.
MatchingCandidates ==
  SelectSeq(FindSkillDirs(last.run.tree),
            LAMBDA c : Lower(c.name) = Lower(last.request.skillName))

\* An install that got as far as choosing what to copy.
InstallChoseCandidates ==
  /\ last.op = "install"
  /\ last.checkoutDir # 0
  /\ last.run.cloneOk
  /\ Len(FindSkillDirs(last.run.tree)) > 0

DirsOf(candidates) == {candidates[i].dir : i \in 1..Len(candidates)}

\* C13: with a skillName filter, the candidates chosen for install are
\* exactly those whose parsed name equals the filter ignoring case when
\* there is one, and all discovered candidates when there is none (never
\* zero); when no copy meets a conflict or fails, every chosen candidate's
\* folder is in the destination root afterwards and no other folder of the
\* root has changed.
C13_FilterIsAdvisory ==
  (InstallChoseCandidates /\ last.request.skillName # NoFilter) =>
    /\ last.toInstall = IF Len(MatchingCandidates) > 0 THEN MatchingCandidates
                        ELSE FindSkillDirs(last.run.tree)
    /\ Len(last.toInstall) > 0
    /\ (last.conflictAt = 0 /\ last.failedAt = 0) =>
         \A f \in Folders :
           IF f \in DirsOf(last.toInstall)
           THEN HasManifest(disk, Join(last.targetRoot, f))
           ELSE DirAt(disk, Join(last.targetRoot, f))
                  = DirAt(last.before, Join(last.targetRoot, f))

\* The filter "zzz" matched neither of two discovered candidates and both
\* were installed into an empty root.
C13_Witness ==
  /\ InstallChoseCandidates
  /\ last.svc = 2
  /\ last.request.skillName = "zzz"
  /\ Len(MatchingCandidates) = 0
  /\ Len(last.toInstall) = 2
  /\ last.result = "ok"
  /\ \A f \in Folders : HasManifest(disk, Join(last.targetRoot, f))
  /\ \A f \in Folders : ~PathExists(last.before, Join(last.targetRoot, f))

\* C14: when an install fails on candidate k because its destination
\* exists, the candidates copied before k are in the destination root,
\* those after k are not copied, and the call returns an error result.
C14_NoRollback ==
  (last.op = "install" /\ last.svc = 2 /\ last.conflictAt # 0) =>
    /\ last.result = "error"
    /\ \A i \in 1..(last.conflictAt - 1) :
         DirAt(disk, Join(last.targetRoot, last.toInstall[i].dir)) = last.toInstall[i].content
    /\ \A i \in (last.conflictAt + 1)..Len(last.toInstall) :
         LET destination == Join(last.targetRoot, last.toInstall[i].dir)
         IN \/ DirAt(disk, destination) = DirAt(last.before, destination)
            \/ \E j \in 1..(last.conflictAt - 1) : last.toInstall[j].dir = last.toInstall[i].dir

\* The claim as stated: the checkout directory an install created no longer
\* exists when the call completes.
C15_CheckoutAlwaysGone ==
  (last.op = "install" /\ last.checkoutDir # 0) => last.checkoutDir \notin disk.temp

\* C15: an install that created its checkout directory tries to remove it
\* on every path (the "cleanup" event of installSkillWithProgress is always
\* emitted), and the directory no longer exists when the call completes
\* unless that removal itself failed.
C15_CheckoutRemovedUnlessRemovalFails ==
  (last.op = "install" /\ last.checkoutDir # 0) =>
    /\ last.svc = 2 => last.events[Len(last.events)] = "cleanup"
    /\ ~last.run.rmFails => last.checkoutDir \notin disk.temp

\* An install that stopped at a naming conflict and removed its checkout.
C15_Witness ==
  /\ last.op = "install"
  /\ last.checkoutDir # 0
  /\ last.conflictAt # 0
  /\ ~last.run.rmFails
  /\ last.checkoutDir \notin disk.temp

\* C16: when the removal of the checkout fails, the install call still
\* returns a result (ok or error) and raises nothing.
C16_CleanupNeverThrows ==
  (last.op = "install" /\ last.checkoutDir # 0 /\ last.run.rmFails) =>
    last.result \in {"ok", "error"}

\* How the handler's promise settles for the consuming layer: skills:toggle
\* awaits the service and returns true, skills:install returns the
\* service's promise, so whatever the service throws rejects the invoke.
HandlerOutcome(rec) ==
  IF rec.op = "toggle" THEN (IF rec.result = "error" THEN "rejected" ELSE "resolved")
  ELSE IF rec.op = "install" THEN (IF rec.result = "thrown" THEN "rejected" ELSE "resolved")
  ELSE "resolved"

\* C17: no toggle and no install ends in an exception for the consuming
\* layer; every error arrives as a returned result.
C17_ErrorsAreResults ==
  last.op \in {"toggle", "install"} => HandlerOutcome(last) = "resolved"

StageOrder == <<"start", "clone", "scan", "copy", "cleanup", "done">>

StageRank(stage) == CHOOSE i \in 1..Len(StageOrder) : StageOrder[i] = stage

\* The stage events of the last install, without the raw output lines.
StageEvents == SelectSeq(last.events, LAMBDA e : e # "output")

\* C18: the stage events of an install come in the order start, clone,
\* scan, copy, cleanup, done, and the last one is done or error.
C18_StageOrder ==
  (last.op = "install" /\ last.svc = 2) =>
    LET steps == SelectSeq(StageEvents, LAMBDA e : e # "error")
    IN /\ \A i, j \in 1..Len(steps) : i < j => StageRank(steps[i]) < StageRank(steps[j])
       /\ StageEvents[Len(StageEvents)] \in {"done", "error"}

\* What getEnablement answers for p when the config file holds config.
StatusUnder(config, p) ==
  CodexGetEnablement([EmptyDisk EXCEPT !.config = [state |-> "ok", other |-> config.other,
                                                   entries |-> config.entries]], p)

\* C19: at no point of a setEnablement does the config path hold a partially
\* written file, and a getEnablement that runs in the middle of it answers
\* from the complete old content or the complete new content.
C19_NoPartialConfig ==
  /\ disk.config.state # "partial"
  /\ (last.op = "writing" /\ last.seenPath # NoPath) =>
       last.seen \in {StatusUnder(last.old, last.seenPath),
                      StatusUnder(last.pending, last.seenPath)}

\* The entries of the config list whose normalized path is that of p.
EntriesOf(d, p) ==
  SelectSeq(d.config.entries,
            LAMBDA e : e.path # NoPath /\ NormalizeSkillPath(e.path) = NormalizeSkillPath(p))

\* C20: after setEnablement(record, e) has completed, the config list holds
\* no entry of the record's normalized path when e is true and exactly the
\* one entry {path, enabled: false} when e is false; getEnablement(record)
\* returns "enabled" in the first case and "disabled" in the second; and a
\* path that matches no entry is "enabled".
C20_GetAfterSet ==
  /\ last.op = "codexSet" =>
       /\ disk.config.state = "ok"
       /\ EntriesOf(disk, last.path) =
            IF last.enabled THEN <<>> ELSE <<[path |-> last.path, enabled |-> FALSE]>>
       /\ CodexGetEnablement(disk, last.path) = IF last.enabled THEN "enabled" ELSE "disabled"
  /\ \A p \in CodexRecordPaths :
       EntriesOf(disk, p) = <<>> => CodexGetEnablement(disk, p) = "enabled"

\* A skill was disabled while the list held two entries of its path (one of
\* them written with a "." segment, one enabling).
C20_Witness ==
  /\ last.op = "codexSet"
  /\ ~last.enabled
  /\ Len(last.old.entries) = 2
  /\ \A i \in 1..2 : last.old.entries[i].path # NoPath
       /\ NormalizeSkillPath(last.old.entries[i].path) = NormalizeSkillPath(last.path)
  /\ last.old.entries[1].path # last.old.entries[2].path
  /\ last.old.entries[1].enabled
  /\ CodexGetEnablement(disk, last.path) = "disabled"

\* A successful enabling toggle of the VS Code target under the companion-root
\* convention.
CompanionEnable ==
  /\ last.op = "toggle"
  /\ last.result = "ok"
  /\ last.target = "vscode"
  /\ last.requested = "enable"
  /\ CopilotRoot # NoPath

\* C21: after a successful enable under the companion-root convention the
\* entry at <companionRoot>/<folder> is a symbolic link whose target is an
\* existing skill directory under the managed root, wherever the skill's
\* physical copy lay when it was enabled.
C21_CompanionLinkNotDangling ==
  CompanionEnable =>
    LET link == LinkAt(disk, Join(CopilotRoot, Basename(last.path)))
    IN /\ link.kind = "symlink"
       /\ UnderSomeRoot("vscode", link.target)
       /\ PathExists(disk, link.target)


\* The copy at p lies under a root that target t owns.
UnderManagedRoot(t, p) ==
  SomeIn(GetRoots(t), LAMBDA r : IsManagedRoot(t, r) /\ IsUnderRoot(p, r))

\* C22: in every listing the "managed" flag of a TargetState is true only
\* when the skill is installed for that target and the copy the TargetState
\* names lies under the root the target itself owns.
C22_ManagedMeansOwnRoot ==
  last.op = "list" =>
    \A e \in ListedEntries : \A ts \in StatesOf(e) :
      ts.managed => (ts.status # "not-installed" /\ UnderManagedRoot(ts.targetId, ts.path))


\* A successful Convention-A disable or enable has just been performed.
SubfolderToggled ==
  /\ last.op = "toggle"
  /\ last.result = "ok"
  /\ last.before \in {"enabled", "disabled"}
  /\ IsConventionA(last.target)

\* C23: the id under which a skill was toggled on a Convention-A target is
\* still the id of that skill in the next listing, and a toggleSkillTarget
\* call with it finds the skill.
C23_IdSurvivesToggle ==
  SubfolderToggled =>
    LET listing == Listing(disk)
    IN /\ \A e \in ElementsOf(listing.skills) :
            Lower(e.name) = last.key => e.id = last.skillId
       /\ last.skillId \in IdsOf(listing.skills)
       /\ ServiceToggleSkillTarget(listing, last.skillId, last.target).err # "Skill not found"


\* Position of a name under comparison by character code: every upper-case
\* letter comes before every lower-case letter.
CharCodeRank(n) ==
  CASE n = "Foo" -> 1
    [] n = "bar" -> 2
    [] n = "foo" -> 3
    [] OTHER -> 4

\* The claim as stated: every listing is sorted by name under character-code
\* comparison.
C24_SortedByCharCode ==
  last.op = "list" =>
    \A i \in 1..(Len(last.result) - 1) :
      CharCodeRank(last.result[i].name) <= CharCodeRank(last.result[i + 1].name)

\* Position of a name in the alphabet when case is ignored.
AlphabeticalRank(n) == IF Lower(n) = "bar" THEN 1 ELSE 2

\* C24: every listing is sorted by name alphabetically without regard to
\* case, as localeCompare orders the names: for adjacent entries a, b the
\* lower-cased name of a does not come after that of b.
C24_SortedIgnoringCase ==
  last.op = "list" =>
    \A i \in 1..(Len(last.result) - 1) :
      AlphabeticalRank(last.result[i].name) <= AlphabeticalRank(last.result[i + 1].name)

\* A listing of the skills "bar" and "Foo", in that order.
C24_Witness ==
  /\ last.op = "list"
  /\ Len(last.result) = 2
  /\ last.result[1].name = "bar"
  /\ last.result[2].name = "Foo"


\* The line on which the manifest's opening delimiter stands: the first
\* non-blank line.
OpeningLine(lines) ==
  CHOOSE i \in 1..Len(lines) : lines[i] # "" /\ \A j \in 1..(i - 1) : lines[j] = ""

\* The first delimiter line after the opening one, 0 when there is none.
ClosingLine(lines) ==
  LET after == {i \in (OpeningLine(lines) + 1)..Len(lines) : TrimLine(lines[i]) = FRONTMATTER_DELIM}
  IN IF after = {} THEN 0 ELSE CHOOSE i \in after : \A j \in after : i <= j

\* The `name:` lines between the opening and the closing delimiter.
NameLinesBetween(lines) ==
  SelectSeq(SubSeq(lines, OpeningLine(lines) + 1, ClosingLine(lines) - 1), IsNameLine)

\* A manifest with a well-formed frontmatter block holding one `name: X`.
WellFormedWithName(lines) ==
  /\ TrimmedStartsWithDelim(lines)
  /\ ClosingLine(lines) # 0
  /\ Len(NameLinesBetween(lines)) = 1

\* C25: for every manifest that, after its leading whitespace, begins with a
\* delimiter line and has a closing delimiter line with `name: X` between
\* them, the parsed name is X with surrounding whitespace and quotes
\* stripped, whether or not blank lines or spaces precede the opening
\* delimiter.
C25_ParsedNameIsFrontmatterName ==
  (last.op = "parsed" /\ WellFormedWithName(last.lines)) =>
    last.name = NameValue(NameLinesBetween(last.lines)[1])


\* What a listing of disk d reports: one <<skill, target, status>> per pair,
\* the skill given by its lower-cased name.
StatusTriples(d) ==
  LET skills == ListSkills(d)
  IN UNION {{<<Lower(skills[i].name), skills[i].targets[j].targetId, skills[i].targets[j].status>> :
               j \in 1..Len(skills[i].targets)} : i \in 1..Len(skills)}

SkillsListed(d) == {Lower(ListSkills(d)[i].name) : i \in 1..Len(ListSkills(d))}

\* The config entries that are not entries of path p.
OtherEntries(d, p) ==
  SelectSeq(ReadConfig(d).entries,
            LAMBDA e : NormalizeSkillPath(e.path) # NormalizeSkillPath(p))

\* C26: a successful toggle of (S, T) leaves the set of listed skills as it
\* was, changes the status of no pair other than (S, T), leaves every skill
\* directory of another skill as it was, and keeps every config entry of
\* another path.
C26_ToggleFrame ==
  [][(last'.op = "toggle" /\ last'.result = "ok") =>
       /\ SkillsListed(disk') = SkillsListed(disk)
       /\ \A tr \in StatusTriples(disk) \cup StatusTriples(disk') :
            (tr[1] # last'.key \/ tr[2] # last'.target) =>
              tr \in StatusTriples(disk) \cap StatusTriples(disk')
       /\ \A p \in ManifestPaths(disk) :
            Lower(ParsedName(disk, p)) # last'.key => DirAt(disk', p) = DirAt(disk, p)
       /\ OtherEntries(disk', last'.path) = OtherEntries(disk, last'.path)]_vars


\* The entries of a config file that are not entries of path p.
EntriesBesides(config, p) ==
  SelectSeq(config.entries, LAMBDA e : NormalizeSkillPath(e.path) # NormalizeSkillPath(p))

\* C27: a completed Codex setEnablement leaves in the config file every
\* entry of another path, with its value and in its order, and every
\* unrelated key that the file held before the call, whether or not the
\* file could be parsed at that moment.
C27_ConfigPreserved ==
  last.op = "codexSet" =>
    /\ EntriesBesides(disk.config, last.path) = EntriesBesides(last.file, last.path)
    /\ disk.config.other = last.file.other


\* An install by installSkillWithProgress has returned status ok.
InstallReturnedOk ==
  /\ last.op = "install"
  /\ last.svc = 2
  /\ last.result = "ok"

\* C28: after installSkillWithProgress returned ok for a target that
\* supports enablement, the next listing has an entry for the name of every
\* installed candidate and reports "enabled" for the install target on it.
C28_InstalledIsEnabled ==
  (InstallReturnedOk /\ SupportsEnablement(InstallTargetId(last.request))) =>
    \A i \in 1..Len(last.toInstall) :
      \E e \in ElementsOf(ListSkills(disk)) :
        /\ Lower(e.name) = Lower(last.toInstall[i].name)
        /\ \E ts \in StatesOf(e) :
             ts.targetId = InstallTargetId(last.request) /\ ts.status = "enabled"


\* C29: after deleteSkillAll returned ok, the next listing reports the skill
\* as "not-installed" for every target (or not at all), and every directory
\* of a skill with another logical name is as it was before the call.
C29_DeleteRemovesAllCopies ==
  (last.op = "delete" /\ last.result = "ok") =>
    /\ \A e \in ElementsOf(ListSkills(disk)) :
         Lower(e.name) = last.key => \A ts \in StatesOf(e) : ts.status = "not-installed"
    /\ \A p \in ManifestPaths(last.before) :
         Lower(ParsedName(last.before, p)) # last.key => DirAt(disk, p) = DirAt(last.before, p)


\* Every updateSettings call has been made and has settled.
AllCallsSettled ==
  /\ last.op = "updateSettings"
  /\ \A c \in Calls : last.calls[c].pc \in {"done", "failed"}

\* The values the calls sent for a key.
ValuesSent(key) == {last.calls[c].partial.value : c \in {o \in Calls : last.calls[o].partial.key = key}}

\* C30: when the updateSettings calls have settled, however they overlapped,
\* every one of them has completed without error, the settings file equals
\* the in-memory settings, and these hold for every key a value some call
\* sent for it, or the value from before the calls when no call sent one.
C30_OverlappingUpdates ==
  AllCallsSettled =>
    /\ \A c \in Calls : last.calls[c].pc = "done"
    /\ disk.settingsFile = settings
    /\ \A key \in DOMAIN DEFAULT_SETTINGS :
         IF ValuesSent(key) # {} THEN settings[key] \in ValuesSent(key)
         ELSE settings[key] = last.initial[key]


====
